---- MODULE Spec2Model ----
(***************************************************************************)
(* A model of the staged test-execution engine of pytoolkit:               *)
(*   - src/src/stages.py        Stage and the stage actions                *)
(*   - src/src/test_factory.py  the Test kinds (ReplayTest,                *)
(*                              PerformanceTest, RecoveryTest) and the     *)
(*                              TestFactory registry                       *)
(*   - src/src/metrics.py       MetricsCalculator                          *)
(*   - src/src/test_suites.py   the execution strategies, their registry   *)
(*                              and create_test_suite                      *)
(* Python dicts are modelled as insertion-ordered sequences of             *)
(* [key, val] records.  Python values that reach a stage as its argument   *)
(* are either a string or a dict; the two are kept apart by a tag because  *)
(* the two types never compare equal in Python either.                     *)
(***************************************************************************)
EXTENDS Integers, Sequences, FiniteSets, TLC

\* ------------------------------------------------------------------ bounds
\* Longest stage sequence of StageSequences.
MaxStages == 3
\* Most Test instances create_test hands out in one behaviour.
MaxCreated == 2
\* Longest sequence of samples handed to MetricsCalculator.
MaxSamples == 4
\* Number of response times read_log_stage and send_batch_stage generate
\* (range(100) in the source, scaled down).
SampleSize == 2

\* ------------------------------------------------------- ordered dictionary
\* dict.keys(): the keys in insertion order.
DictKeys(d) == [i \in 1..Len(d) |-> d[i].key]

\* k in d
DictHas(d, k) == \E i \in 1..Len(d) : d[i].key = k

\* d[k], for a key that is present
DictGet(d, k) == d[CHOOSE i \in 1..Len(d) : d[i].key = k].val

\* Variant of d[k] = v that moves a present key to the end.
DictSetMovesToEnd(d, k, v) ==
    LET Keep(e) == e.key # k
    IN  Append(SelectSeq(d, Keep), [key |-> k, val |-> v])

\* d[k] = v: a present key keeps its position and takes the new value, an
\* absent key is appended.
DictSet(d, k, v) ==
    IF DictHas(d, k)
    THEN [i \in 1..Len(d) |-> IF d[i].key = k THEN [key |-> k, val |-> v] ELSE d[i]]
    ELSE Append(d, [key |-> k, val |-> v])

\* d.pop(k, None): the entry of k is removed, the others keep their order; an
\* absent key leaves d as it is.
RECURSIVE DictPop(_, _)
DictPop(d, k) ==
    IF d = <<>> THEN <<>>
    ELSE IF Head(d).key = k THEN DictPop(Tail(d), k)
    ELSE <<Head(d)>> \o DictPop(Tail(d), k)

\* ------------------------------------------------------------ stage library
\* The values a stage may be handed.
StrArg(s) == [tag |-> "str", str |-> s, map |-> <<>>]
DictArg(d) == [tag |-> "dict", str |-> "", map |-> d]

\* The values stages produce.  A value that is no dict is known by its
\* Python text (py); a dict has py = "dict" and the keys the stages of
\* stages.py write and read: status, response_times (has_rt tells whether the
\* key is there), sample_size, source, metrics, error, and rest for the keys
\* nothing reads (batch_size, entries, graphs).  Response times and metrics
\* are numbers in units the metrics section fixes.
NoMetrics == [min |-> 0, max |-> 0, median |-> 0, p90 |-> 0, p95 |-> 0, p99 |-> 0]

Val(py) == [py |-> py, status |-> "", has_rt |-> FALSE, rt |-> <<>>,
            sample_size |-> 0, source |-> "", metrics |-> NoMetrics,
            error |-> "", rest |-> ""]

\* {"status": st}
StatusDict(st) == [Val("dict") EXCEPT !.status = st]

NoValue == Val("")

\* What an action does when called: it returns a value or it raises.
Returns(v) == [tag |-> "return", val |-> v, exc |-> ""]
Raises(e) == [tag |-> "raise", val |-> NoValue, exc |-> e]

\* Outputs and failures of a caller-supplied action.
Outputs == {Val("out_a"), Val("out_b")}
Errors == {"ValueError: stage failed"}

\* connect_stage(app_name): prints and returns True.
connect_stage(a) == Returns(Val("True"))

\* get_log_stage(app_name): prints and returns the log's name.
get_log_stage(a) == Returns(Val("dummy_log.txt"))

\* inject_data_stage(batch_data): prints and returns {"status": "success"}.
inject_data_stage(a) == Returns(StatusDict("success"))

\* ------------------------------------------------------------------ metrics
\* A response time is a whole number of milliseconds (0.104 s is 104); a list
\* element that numpy cannot turn into a float is a negative number.  The
\* metrics calculate_metrics computes are exact in units of 1/100 ms; the
\* metrics format_metrics reports are whole hundredths of a second.
RtValues == {104, 105, 496}
IsNumeric(x) == x >= 0

\* Every list of at most n samples.
SamplesUpTo(n) == UNION { [1..k -> RtValues] : k \in 0..n }

\* s with x put before its first element that is not below x
RECURSIVE Insert(_, _)
Insert(x, s) ==
    IF s = <<>> THEN <<x>>
    ELSE IF x <= Head(s) THEN <<x>> \o s
    ELSE <<Head(s)>> \o Insert(x, Tail(s))

\* The samples in ascending order.
RECURSIVE Sort(_)
Sort(s) == IF s = <<>> THEN <<>> ELSE Insert(Head(s), Sort(Tail(s)))

\* np.min, np.max
Min(data) == 100 * Sort(data)[1]
Max(data) == 100 * Sort(data)[Len(data)]

\* np.median: the middle sample, or the mean of the two middle ones.
Median(data) ==
    LET a == Sort(data)
        n == Len(a)
    IN  IF n % 2 = 1 THEN 100 * a[(n + 1) \div 2]
        ELSE 50 * (a[n \div 2] + a[n \div 2 + 1])

\* Variant of np.percentile that interpolates between the samples in the
\* order they came in.
PercentileUnsorted(data, q) ==
    LET n == Len(data)
        pos == (n - 1) * q
        lo == pos \div 100 + 1
        hi == IF lo < n THEN lo + 1 ELSE lo
    IN  100 * data[lo] + (pos % 100) * (data[hi] - data[lo])

\* np.percentile(data, q), method 'linear': the sorted samples are at ranks
\* 0..n-1, rank (n-1)*q/100 lies between two of them and the result is
\* interpolated linearly between the two.
Percentile(data, q) ==
    LET a == Sort(data)
        n == Len(a)
        pos == (n - 1) * q
        lo == pos \div 100 + 1
        hi == IF lo < n THEN lo + 1 ELSE lo
    IN  100 * a[lo] + (pos % 100) * (a[hi] - a[lo])

\* MetricsCalculator.calculate_metrics(data); std_dev is left out.
calculate_metrics(data) ==
    IF data = <<>>
    THEN Raises("ValueError: Cannot calculate metrics for empty dataset")
    ELSE IF \E i \in 1..Len(data) : ~IsNumeric(data[i])
    THEN Raises("ValueError: Input data must contain only numerical values")
    ELSE Returns([Val("MetricsResult") EXCEPT !.metrics =
            [min |-> Min(data), max |-> Max(data), median |-> Median(data),
             p90 |-> Percentile(data, 90), p95 |-> Percentile(data, 95),
             p99 |-> Percentile(data, 99)]])

\* round(x, 2): the nearest hundredth, a tie going to the even one.
Round(x) ==
    LET q == x \div 1000
        r == x % 1000
    IN  IF r < 500 THEN q
        ELSE IF r > 500 THEN q + 1
        ELSE IF q % 2 = 0 THEN q ELSE q + 1

\* MetricsCalculator.format_metrics(metrics)
format_metrics(m) ==
    [min |-> Round(m.min), max |-> Round(m.max), median |-> Round(m.median),
     p90 |-> Round(m.p90), p95 |-> Round(m.p95), p99 |-> Round(m.p99)]

\* MetricsCalculator.process_metrics(data)
process_metrics(data) ==
    LET r == calculate_metrics(data)
    IN  IF r.tag = "raise" THEN r
        ELSE Returns([Val("dict") EXCEPT !.metrics = format_metrics(r.val.metrics)])

\* str(e): the message of an exception.
str(e) ==
    CASE e = "ValueError: Cannot calculate metrics for empty dataset"
           -> "Cannot calculate metrics for empty dataset"
      [] e = "ValueError: Input data must contain only numerical values"
           -> "Input data must contain only numerical values"
      [] OTHER -> e

\* ---------------------------------------------------------- analytics stages
\* The response times read_log_stage and send_batch_stage generate.
GeneratedSamples == [1..SampleSize -> RtValues]

\* {"status": "success", "response_times": rt, <key>: ...}
Measured(rt, key) ==
    [StatusDict("success") EXCEPT !.has_rt = TRUE, !.rt = rt, !.rest = key]

\* read_log_stage(log_path)
read_log_stage(a) == { Returns(Measured(rt, "entries")) : rt \in GeneratedSamples }

\* send_batch_stage(batch_data): batch_data.get fails on what is no dict.
send_batch_stage(a) ==
    IF a.tag = "dict"
    THEN { Returns(Measured(rt, "batch_size")) : rt \in GeneratedSamples }
    ELSE { Raises("AttributeError: 'str' object has no attribute 'get'") }

IsDict(v) == v.py = "dict"

\* v.get('response_times'); None is the empty list here, both being falsy.
GetResponseTimes(v) == IF v.has_rt THEN v.rt ELSE <<>>

\* Variant of the tail of calculate_metrics_stage that passes the samples on
\* in ascending order.
MetricsOfSorted(res, response_times) ==
    LET m == process_metrics(response_times)
    IN  IF m.tag = "raise"
        THEN Returns([StatusDict("error") EXCEPT !.error = str(m.exc)])
        ELSE Returns([StatusDict("success") EXCEPT
                        !.metrics = m.val.metrics,
                        !.sample_size = Len(response_times),
                        !.source = IF DictHas(res, "send_batch")
                                   THEN "send_batch" ELSE "read_log",
                        !.has_rt = TRUE,
                        !.rt = Sort(response_times)])

\* The tail of calculate_metrics_stage, once response_times is found.
MetricsOf(res, response_times) ==
    LET m == process_metrics(response_times)
    IN  IF m.tag = "raise"
        THEN Returns([StatusDict("error") EXCEPT !.error = str(m.exc)])
        ELSE Returns([StatusDict("success") EXCEPT
                        !.metrics = m.val.metrics,
                        !.sample_size = Len(response_times),
                        !.source = IF DictHas(res, "send_batch")
                                   THEN "send_batch" ELSE "read_log",
                        !.has_rt = TRUE,
                        !.rt = response_times])

NotADict == "AttributeError: object has no attribute 'get'"
NoResponseTimes == "ValueError: No response times found in results"

\* Variant of calculate_metrics_stage that looks under read_log first.
calculate_metrics_stageReadLogFirst(a) ==
    LET res == a.map
        hasSb == DictHas(res, "send_batch")
        hasRl == DictHas(res, "read_log")
    IN  IF hasRl /\ ~IsDict(DictGet(res, "read_log")) THEN Raises(NotADict)
        ELSE IF hasRl /\ GetResponseTimes(DictGet(res, "read_log")) # <<>>
        THEN MetricsOf(res, GetResponseTimes(DictGet(res, "read_log")))
        ELSE IF hasSb /\ ~IsDict(DictGet(res, "send_batch")) THEN Raises(NotADict)
        ELSE IF hasSb /\ GetResponseTimes(DictGet(res, "send_batch")) # <<>>
        THEN MetricsOf(res, GetResponseTimes(DictGet(res, "send_batch")))
        ELSE Raises(NoResponseTimes)

\* Variant of calculate_metrics_stage that reports missing response times
\* as a status "error" value.
calculate_metrics_stageReturnsError(a) ==
    LET res == a.map
        hasSb == DictHas(res, "send_batch")
        hasRl == DictHas(res, "read_log")
    IN  IF hasSb /\ ~IsDict(DictGet(res, "send_batch")) THEN Raises(NotADict)
        ELSE IF hasSb /\ GetResponseTimes(DictGet(res, "send_batch")) # <<>>
        THEN MetricsOf(res, GetResponseTimes(DictGet(res, "send_batch")))
        ELSE IF hasRl /\ ~IsDict(DictGet(res, "read_log")) THEN Raises(NotADict)
        ELSE IF hasRl /\ GetResponseTimes(DictGet(res, "read_log")) # <<>>
        THEN MetricsOf(res, GetResponseTimes(DictGet(res, "read_log")))
        ELSE Returns([StatusDict("error") EXCEPT !.error = str(NoResponseTimes)])

\* calculate_metrics_stage(results): the loop over ['send_batch', 'read_log']
\* stops at the first entry whose response_times is not empty; with none, it
\* raises before the try block.
calculate_metrics_stage(a) ==
    LET res == a.map
        hasSb == DictHas(res, "send_batch")
        hasRl == DictHas(res, "read_log")
    IN  IF hasSb /\ ~IsDict(DictGet(res, "send_batch")) THEN Raises(NotADict)
        ELSE IF hasSb /\ GetResponseTimes(DictGet(res, "send_batch")) # <<>>
        THEN MetricsOf(res, GetResponseTimes(DictGet(res, "send_batch")))
        ELSE IF hasRl /\ ~IsDict(DictGet(res, "read_log")) THEN Raises(NotADict)
        ELSE IF hasRl /\ GetResponseTimes(DictGet(res, "read_log")) # <<>>
        THEN MetricsOf(res, GetResponseTimes(DictGet(res, "read_log")))
        ELSE Raises(NoResponseTimes)

\* source.replace('_', ' ').title()
Title(source) ==
    CASE source = "send_batch" -> "Send Batch"
      [] source = "read_log" -> "Read Log"
      [] OTHER -> "Unknown"

\* What the two calls of ResponseTimeGrapher can do: each writes a file and
\* returns its path, or fails.
GrapherRuns == { <<"path", "path">>, <<"path", "raise">>, <<"raise">> }

\* The calls create_graphs_stage makes to the grapher in a run g of it.
GrapherCalls(g, response_times, title) ==
    [i \in 1..Len(g) |->
        [method |-> IF i = 1 THEN "create_scatter_plot" ELSE "create_multi_plot",
         response_times |-> response_times,
         title |-> title,
         file |-> g[i] = "path"]]

NoMetricsTimes == "ValueError: No response times found in metrics results"

\* What one execution of create_graphs_stage does: its outcome and the calls
\* it made to the grapher.
Graphing(o, plotted) == [out |-> o, plotted |-> plotted]

\* Variant of create_graphs_stage that falls back on the send_batch entry
\* when calculate_metrics left no response times.
create_graphs_stageFallback(a) ==
    LET res == a.map
        has == DictHas(res, "calculate_metrics")
        metrics_result == IF has THEN DictGet(res, "calculate_metrics")
                          ELSE Val("dict")
        own == GetResponseTimes(metrics_result)
        response_times ==
            IF own = <<>> /\ DictHas(res, "send_batch")
            THEN GetResponseTimes(DictGet(res, "send_batch")) ELSE own
        source == IF metrics_result.source = "" THEN "unknown"
                  ELSE metrics_result.source
    IN  IF ~IsDict(metrics_result) THEN { Graphing(Raises(NotADict), <<>>) }
        ELSE IF response_times = <<>>
        THEN { Graphing(Raises(NoMetricsTimes), <<>>) }
        ELSE { Graphing(IF g = <<"path", "path">>
                        THEN Returns([StatusDict("success") EXCEPT !.rest = "graphs"])
                        ELSE Returns([StatusDict("error") EXCEPT
                                        !.error = "grapher failed"]),
                        GrapherCalls(g, response_times, Title(source)))
               : g \in GrapherRuns }

\* create_graphs_stage(results): response_times and source come from the
\* calculate_metrics entry ({} when there is none); without response times it
\* raises before the grapher is built; what the grapher raises becomes a
\* status "error" value.
create_graphs_stage(a) ==
    LET res == a.map
        has == DictHas(res, "calculate_metrics")
        metrics_result == IF has THEN DictGet(res, "calculate_metrics")
                          ELSE Val("dict")
        response_times == GetResponseTimes(metrics_result)
        source == IF metrics_result.source = "" THEN "unknown"
                  ELSE metrics_result.source
    IN  IF ~IsDict(metrics_result) THEN { Graphing(Raises(NotADict), <<>>) }
        ELSE IF response_times = <<>>
        THEN { Graphing(Raises(NoMetricsTimes), <<>>) }
        ELSE { Graphing(IF g = <<"path", "path">>
                        THEN Returns([StatusDict("success") EXCEPT !.rest = "graphs"])
                        ELSE Returns([StatusDict("error") EXCEPT
                                        !.error = "grapher failed"]),
                        GrapherCalls(g, response_times, Title(source)))
               : g \in GrapherRuns }

\* Dicts a caller-supplied action may return in place of a measurement: one
\* without response_times, one with an empty list, some with samples, one
\* with a sample that is no number.
MapOutputs ==
    { StatusDict("success"), Measured(<<>>, ""), Measured(<<105>>, ""),
      Measured(<<496, 104>>, ""), Measured(<<104, 0 - 1>>, "") }

\* The outcomes the action of a stage can have on argument a.
ActionOutcomes(action, a) ==
    CASE action = "connect_stage" -> {connect_stage(a)}
      [] action = "get_log_stage" -> {get_log_stage(a)}
      [] action = "inject_data_stage" -> {inject_data_stage(a)}
      [] action = "read_log_stage" -> read_log_stage(a)
      [] action = "send_batch_stage" -> send_batch_stage(a)
      [] action = "calculate_metrics_stage" -> {calculate_metrics_stage(a)}
      [] action = "create_graphs_stage" -> {g.out : g \in create_graphs_stage(a)}
      [] action = "custom_map" -> {Returns(v) : v \in MapOutputs}
      [] OTHER -> {Returns(v) : v \in Outputs} \cup {Raises(e) : e \in Errors}

\* Stage(name, action)
Stage(name, action) == [name |-> name, action |-> action]

\* Variant of Stage.execute that catches the action's failure and raises its
\* own.
StageExecuteWrap(o) == IF o.tag = "raise" THEN Raises("StageError") ELSE o

\* Stage.execute(*args): the outcome of the action, whatever it is.
StageExecute(o) == o

\* get_replay_stages()
get_replay_stages ==
    << Stage("connect", "connect_stage"),
       Stage("get_log", "get_log_stage"),
       Stage("inject_data", "inject_data_stage") >>

\* get_performance_stages()
get_performance_stages ==
    << Stage("connect", "connect_stage"),
       Stage("send_batch", "send_batch_stage"),
       Stage("calculate_metrics", "calculate_metrics_stage"),
       Stage("create_graphs", "create_graphs_stage") >>

\* get_recovery_stages()
get_recovery_stages ==
    << Stage("connect", "connect_stage"),
       Stage("read_log", "read_log_stage"),
       Stage("calculate_metrics", "calculate_metrics_stage"),
       Stage("create_graphs", "create_graphs_stage") >>

\* The stages that may stand where send_batch or read_log stands: the
\* built-in one, and stages of that name whose action returns some other
\* dict, returns no dict, or fails.
Producers(name, action) ==
    { Stage(name, act) : act \in {action, "custom_map", "inject_data_stage", "custom"} }

\* The sequences that end in the analytics stages: the two built-in ones,
\* those with another producer in its place, those with a send_batch and a
\* read_log producer, and the one with no producer.
PipelineSequences ==
    { << get_performance_stages[1], p, get_performance_stages[3],
         get_performance_stages[4] >> :
         p \in Producers("send_batch", "send_batch_stage")
                \cup Producers("read_log", "read_log_stage") }
    \cup
    { << p, q, get_performance_stages[3], get_performance_stages[4] >> :
         p \in Producers("send_batch", "send_batch_stage"),
         q \in Producers("read_log", "read_log_stage") }
    \cup
    { << get_performance_stages[1], get_performance_stages[3],
         get_performance_stages[4] >> }

\* Stages with a caller-supplied action, under the names the binding rules
\* tell apart and under one name none of them knows.
CustomStages ==
    { Stage(n, "custom") : n \in {"read_log", "send_batch", "calculate_metrics"} }

StageObjects == { get_replay_stages[i] : i \in 1..3 } \cup CustomStages

\* Every stage sequence of at most MaxStages stages.
StageSequences == UNION { [1..n -> StageObjects] : n \in 0..MaxStages }

\* ---------------------------------------------------------------- test kinds
TestKinds == {"ReplayTest", "PerformanceTest", "RecoveryTest"}
AppNames == {"MyApp", "OtherApp"}
LogPaths == {"app.log"}
BatchData == << [key |-> "data", val |-> Val("[1, 2, 3]")] >>

\* Variant of ReplayTest.run's binding without the read_log branch.
ReplayArgNoReadLog(name, app, lp, bd, res) ==
    CASE name = "connect" -> StrArg(app)
      [] name = "get_log" -> StrArg(app)
      [] name = "inject_data" -> DictArg(bd)
      [] OTHER -> DictArg(res)

\* ReplayTest.run: the argument of the stage named name.
ReplayArg(name, app, lp, bd, res) ==
    CASE name = "connect" -> StrArg(app)
      [] name = "get_log" -> StrArg(app)
      [] name = "read_log" -> StrArg(lp)
      [] name = "inject_data" -> DictArg(bd)
      [] OTHER -> DictArg(res)

\* Variant of PerformanceTest.run's binding that hands a fresh empty map to
\* the stages it has no input for.
PerformanceArgEmptyMap(name, app, bd, res) ==
    CASE name = "connect" -> StrArg(app)
      [] name = "send_batch" -> DictArg(bd)
      [] OTHER -> DictArg(<<>>)

\* PerformanceTest.run: the argument of the stage named name.
PerformanceArg(name, app, bd, res) ==
    CASE name = "connect" -> StrArg(app)
      [] name = "send_batch" -> DictArg(bd)
      [] OTHER -> DictArg(res)

\* Variant of RecoveryTest.run's binding that hands read_log the caller's
\* log_path.
RecoveryArgCallerPath(name, app, lp, res) ==
    CASE name = "connect" -> StrArg(app)
      [] name = "read_log" -> StrArg(lp)
      [] OTHER -> DictArg(res)

\* RecoveryTest.run: the argument of the stage named name; a log_path the
\* caller passes ends in **kwargs and is not used.
RecoveryArg(name, app, lp, res) ==
    CASE name = "connect" -> StrArg(app)
      [] name = "read_log" -> StrArg("dummy_recovery_log.txt")
      [] OTHER -> DictArg(res)

VARIABLES
    pc,          \* where the run is: idle, loop, in_stage, completed, failed
    test,        \* the Test kind whose run is executing
    app_name,    \* run's arguments
    stages,
    log_path,
    batch_data,
    results,     \* run's local result map
    idx,         \* position of the loop in stages (1-based)
    arg,         \* the argument handed to the stage that was invoked last
    calls,       \* positions invoked so far, in invocation order
    outs,        \* what each invoked stage's action did, in invocation order
    outcome,     \* what run gave its caller
    registry,    \* TestFactory._registry
    created,     \* the instances create_test has returned, oldest first
    last,        \* the registry operation performed last, and how it ended
    regOrder,    \* the registered names, oldest successful registration first
    strategies,  \* TestExecutionFactory._strategies
    lastS,       \* the strategy-registry operation performed last
    latest,      \* per kind name, the strategy register_strategy was given last
    exec,        \* the execute call of a strategy: its arguments and its end
    analytics,   \* one call of an analytics function: its input and its end
    run2,        \* a second run, with the fields of the first
    suite        \* the suite create_test_suite built, and its test case

runVars == << pc, test, app_name, stages, log_path, batch_data, results, idx,
              arg, calls, outs, outcome >>

regVars == << registry, created, last, regOrder >>

stratVars == << strategies, lastS, latest >>

\* What the operations of one component leave alone.
notRun == << regVars, stratVars, analytics, run2, suite >>
notReg == << runVars, stratVars, exec, analytics, run2, suite >>
notStrat == << runVars, regVars, exec, analytics, run2, suite >>
notAnalytics == << runVars, regVars, stratVars, exec, run2, suite >>
notRun2 == << runVars, regVars, stratVars, exec, analytics, suite >>

NoArg == [tag |-> "none", str |-> "", map |-> <<>>]
NoOutcome == [tag |-> "none", map |-> <<>>, exc |-> ""]

\* The argument the running Test kind binds to the stage named name.
BindArg(name) ==
    CASE test = "ReplayTest" -> ReplayArg(name, app_name, log_path, batch_data, results)
      [] test = "PerformanceTest" -> PerformanceArg(name, app_name, batch_data, results)
      [] test = "RecoveryTest" -> RecoveryArg(name, app_name, log_path, results)

RunInit ==
    /\ pc = "idle"
    /\ test = "ReplayTest"
    /\ app_name = "MyApp"
    /\ stages = <<>>
    /\ log_path = "app.log"
    /\ batch_data = BatchData
    /\ results = <<>>
    /\ idx = 1
    /\ arg = NoArg
    /\ calls = <<>>
    /\ outs = <<>>
    /\ outcome = NoOutcome

\* test.run(app_name, stages, log_path=..., batch_data=...): results = {}
Call(k, a, ss, lp, bd) ==
    /\ pc = "idle"
    /\ pc' = "loop"
    /\ test' = k
    /\ app_name' = a
    /\ stages' = ss
    /\ log_path' = lp
    /\ batch_data' = bd
    /\ results' = <<>>
    /\ idx' = 1
    /\ arg' = NoArg
    /\ calls' = <<>>
    /\ outs' = <<>>
    /\ outcome' = NoOutcome
    /\ UNCHANGED notRun

\* for stage in stages: ... stage.execute(<bound argument>)
Invoke ==
    /\ pc = "loop"
    /\ idx <= Len(stages)
    /\ pc' = "in_stage"
    /\ arg' = BindArg(stages[idx].name)
    /\ calls' = Append(calls, idx)
    /\ UNCHANGED << test, app_name, stages, log_path, batch_data, results, idx,
                    outs, outcome >>
    /\ UNCHANGED << notRun, exec >>

\* Variant of the stage actions in which calculate_metrics_stage takes the
\* entry it used out of the map it was handed.
ArgAfterPops(action, a) ==
    IF action = "calculate_metrics_stage" /\ a.tag = "dict"
    THEN [a EXCEPT !.map = DictPop(DictPop(a.map, "send_batch"), "read_log")]
    ELSE a

\* The argument of a stage as the stage's action leaves it: no action of
\* stages.py assigns to its argument or calls a method of it that changes
\* it (calculate_metrics_stage and create_graphs_stage use in, [] and get).
ArgAfter(action, a) == a

\* The result map once the invoked stage's action has ended.  A stage bound
\* to results is handed the map itself, so what the action did to its
\* argument it did to the map.
ResultsAfterStage ==
    IF arg = DictArg(results) THEN ArgAfter(stages[idx].action, arg).map
    ELSE results

\* Variant of the loop body that invokes a failed stage again.
LoopStepRetry(o) ==
    IF o.tag = "return"
    THEN /\ results' = DictSet(ResultsAfterStage, stages[idx].name, o.val)
         /\ idx' = idx + 1
         /\ pc' = "loop"
         /\ outcome' = outcome
    ELSE /\ results' = results
         /\ idx' = idx
         /\ pc' = "loop"
         /\ outcome' = outcome

\* Variant of the loop body that puts each new result first in the map.
LoopStepPrepend(o) ==
    IF o.tag = "return"
    THEN /\ results' = << [key |-> stages[idx].name, val |-> o.val] >>
                           \o DictPop(ResultsAfterStage, stages[idx].name)
         /\ idx' = idx + 1
         /\ pc' = "loop"
         /\ outcome' = outcome
    ELSE /\ results' = results
         /\ idx' = idx
         /\ pc' = "failed"
         /\ outcome' = [tag |-> "raise", map |-> <<>>, exc |-> o.exc]

\* The loop body after stage.execute came back: a value is stored under the
\* stage's name and the loop moves on; a failure leaves run, and with it the
\* local result map.
LoopStep(o) ==
    IF o.tag = "return"
    THEN /\ results' = DictSet(ResultsAfterStage, stages[idx].name, o.val)
         /\ idx' = idx + 1
         /\ pc' = "loop"
         /\ outcome' = outcome
    ELSE /\ results' = results
         /\ idx' = idx
         /\ pc' = "failed"
         /\ outcome' = [tag |-> "raise", map |-> <<>>, exc |-> o.exc]

\* The invoked stage's action ends, with outcome o, and Stage.execute hands
\* its outcome to the loop.
StageEnds(o) ==
    /\ pc = "in_stage"
    /\ o \in ActionOutcomes(stages[idx].action, arg)
    /\ outs' = Append(outs, o)
    /\ LoopStep(StageExecute(o))
    /\ UNCHANGED << test, app_name, stages, log_path, batch_data, arg, calls >>
    /\ UNCHANGED << notRun, exec >>

\* The sequence is exhausted: return results
Finish ==
    /\ pc = "loop"
    /\ idx > Len(stages)
    /\ pc' = "completed"
    /\ outcome' = [tag |-> "return", map |-> results, exc |-> ""]
    /\ UNCHANGED << test, app_name, stages, log_path, batch_data, results, idx,
                    arg, calls, outs >>
    /\ UNCHANGED << notRun, exec >>

\* A caller starts a run of some Test kind on some stage sequence.
StartRun ==
    /\ pc = "idle"
    /\ \E k \in TestKinds, a \in AppNames, ss \in StageSequences, lp \in LogPaths :
          Call(k, a, ss, lp, BatchData)
    /\ UNCHANGED exec

\* The invoked stage's action does one of the things it can do.
StageStep ==
    /\ pc = "in_stage"
    /\ \E o \in ActionOutcomes(stages[idx].action, arg) : StageEnds(o)

RunNext ==
    \/ StartRun
    \/ Invoke
    \/ StageStep
    \/ Finish

\* ------------------------------------------------------------- a second run
\* The sequences two runs at a time are given: the built-in replay sequence
\* and two with caller-supplied actions.
SharedSequences ==
    { get_replay_stages,
      << Stage("connect", "connect_stage"), Stage("send_batch", "custom") >>,
      << Stage("read_log", "custom"), Stage("calculate_metrics", "custom") >> }

\* A caller starts the first run on one of them.
StartShared ==
    /\ pc = "idle"
    /\ \E k \in TestKinds, ss \in SharedSequences :
          Call(k, "MyApp", ss, "app.log", BatchData)
    /\ UNCHANGED exec

\* Variant of results = {} that starts from the map another run holds.
NewResultMapReused(held) == held

\* results = {}: the map of a run is a new one, whatever maps are held by
\* runs under way.
NewResultMap(held) == <<>>

Run2Init ==
    run2 = [pc |-> "idle", test |-> "ReplayTest", app_name |-> "OtherApp",
            stages |-> <<>>, log_path |-> "app.log", batch_data |-> BatchData,
            results |-> <<>>, idx |-> 1, arg |-> NoArg, calls |-> <<>>,
            outs |-> <<>>, outcome |-> NoOutcome]

\* The argument the second run binds to the stage named name.
BindArg2(name) ==
    CASE run2.test = "ReplayTest" ->
            ReplayArg(name, run2.app_name, run2.log_path, run2.batch_data, run2.results)
      [] run2.test = "PerformanceTest" ->
            PerformanceArg(name, run2.app_name, run2.batch_data, run2.results)
      [] run2.test = "RecoveryTest" ->
            RecoveryArg(name, run2.app_name, run2.log_path, run2.results)

\* test.run(app_name, stages, ...) a second time, while the first run may be
\* under way: results = {}
Call2(k, a, ss, lp, bd) ==
    /\ run2.pc = "idle"
    /\ run2' = [pc |-> "loop", test |-> k, app_name |-> a, stages |-> ss,
                log_path |-> lp, batch_data |-> bd,
                results |-> NewResultMap(results), idx |-> 1, arg |-> NoArg,
                calls |-> <<>>, outs |-> <<>>, outcome |-> NoOutcome]
    /\ UNCHANGED notRun2

Start2 ==
    /\ run2.pc = "idle"
    /\ \E k \in TestKinds, ss \in SharedSequences :
          Call2(k, "OtherApp", ss, "app.log", BatchData)

\* for stage in stages: ... stage.execute(<bound argument>)
Invoke2 ==
    /\ run2.pc = "loop"
    /\ run2.idx <= Len(run2.stages)
    /\ run2' = [run2 EXCEPT !.pc = "in_stage",
                            !.arg = BindArg2(run2.stages[run2.idx].name),
                            !.calls = Append(run2.calls, run2.idx)]
    /\ UNCHANGED notRun2

\* The loop body of the second run after stage.execute came back.
LoopStep2(o) ==
    IF o.tag = "return"
    THEN run2' = [run2 EXCEPT
                    !.results = DictSet(IF run2.arg = DictArg(run2.results)
                                        THEN ArgAfter(run2.stages[run2.idx].action,
                                                      run2.arg).map
                                        ELSE run2.results,
                                        run2.stages[run2.idx].name, o.val),
                    !.idx = run2.idx + 1,
                    !.pc = "loop",
                    !.outs = Append(run2.outs, o)]
    ELSE run2' = [run2 EXCEPT
                    !.pc = "failed",
                    !.outcome = [tag |-> "raise", map |-> <<>>, exc |-> o.exc],
                    !.outs = Append(run2.outs, o)]

StageEnds2(o) ==
    /\ run2.pc = "in_stage"
    /\ o \in ActionOutcomes(run2.stages[run2.idx].action, run2.arg)
    /\ LoopStep2(StageExecute(o))
    /\ UNCHANGED notRun2

StageStep2 ==
    /\ run2.pc = "in_stage"
    /\ \E o \in ActionOutcomes(run2.stages[run2.idx].action, run2.arg) :
          StageEnds2(o)

\* The sequence is exhausted: return results
Finish2 ==
    /\ run2.pc = "loop"
    /\ run2.idx > Len(run2.stages)
    /\ run2' = [run2 EXCEPT
                   !.pc = "completed",
                   !.outcome = [tag |-> "return", map |-> run2.results, exc |-> ""]]
    /\ UNCHANGED notRun2

\* Two runs, the steps of one between the steps of the other in any order.
InterleavedNext ==
    \/ StartShared
    \/ Invoke
    \/ StageStep
    \/ Finish
    \/ Start2
    \/ Invoke2
    \/ StageStep2
    \/ Finish2

\* A caller starts a run of some Test kind on a sequence that ends in the
\* analytics stages.
StartPipeline ==
    /\ pc = "idle"
    /\ \E k \in TestKinds, a \in AppNames, ss \in PipelineSequences, lp \in LogPaths :
          Call(k, a, ss, lp, BatchData)
    /\ UNCHANGED exec

PipelineNext ==
    \/ StartPipeline
    \/ Invoke
    \/ StageStep
    \/ Finish

\* ------------------------------------------------------------- TestFactory
\* The classes handed to register.  issubclass(c, Test) holds of Test itself
\* and of its subclasses; Test declares run abstract and the three Test kinds
\* define it; ReplayExecutionStrategy (test_suites.py) is no Test.
Classes == {"ReplayTest", "PerformanceTest", "RecoveryTest", "Test",
            "ReplayExecutionStrategy"}
IsSubclassOfTest(c) == c \in {"ReplayTest", "PerformanceTest", "RecoveryTest", "Test"}
IsAbstract(c) == c = "Test"

\* The names and classes the registry operations are called with.
KindNames == {"replay", "recovery", "new_test"}
RegisterClasses == {"ReplayTest", "Test", "ReplayExecutionStrategy"}

NoInstance == [cls |-> "", id |-> 0]

\* Variant of register without the check for a registered name.
registerOverwrite(reg, t, c) ==
    IF ~IsSubclassOfTest(c)
    THEN [registry |-> reg, result |-> "InvalidCapability"]
    ELSE [registry |-> DictSet(reg, t, c), result |-> "ok"]

\* TestFactory.register(test_type, test_class) on registry reg: the registry
\* it leaves and how it ends.  The class is checked before the name.
register(reg, t, c) ==
    IF ~IsSubclassOfTest(c)
    THEN [registry |-> reg, result |-> "InvalidCapability"]
    ELSE IF DictHas(reg, t)
    THEN [registry |-> reg, result |-> "DuplicateKind"]
    ELSE [registry |-> DictSet(reg, t, c), result |-> "ok"]

\* Variant of unregister that pops without a default.
unregisterStrict(reg, t) ==
    IF DictHas(reg, t)
    THEN [registry |-> DictPop(reg, t), result |-> "ok"]
    ELSE [registry |-> reg, result |-> "KeyError"]

\* TestFactory.unregister(test_type): _registry.pop(test_type, None)
unregister(reg, t) == [registry |-> DictPop(reg, t), result |-> "ok"]

\* Variant of get_registered_types that lists the newest name first.
get_registered_typesNewestFirst(reg) ==
    [i \in 1..Len(reg) |-> reg[Len(reg) + 1 - i].key]

\* TestFactory.get_registered_types()
get_registered_types(reg) == DictKeys(reg)

\* Variant of create_test that hands out one shared instance per class.
create_testShared(reg, t, made) ==
    IF ~DictHas(reg, t)
    THEN [result |-> "UnknownKind", available |-> get_registered_types(reg),
          inst |-> NoInstance]
    ELSE IF IsAbstract(DictGet(reg, t))
    THEN [result |-> "TypeError", available |-> <<>>, inst |-> NoInstance]
    ELSE [result |-> "ok", available |-> <<>>,
          inst |-> [cls |-> DictGet(reg, t), id |-> 1]]

\* TestFactory.create_test(test_type) on registry reg, when made is the
\* sequence of the instances constructed so far: a missing key is reported
\* with the registered names, an abstract class cannot be instantiated, any
\* other class yields a new object.
create_test(reg, t, made) ==
    IF ~DictHas(reg, t)
    THEN [result |-> "UnknownKind", available |-> get_registered_types(reg),
          inst |-> NoInstance]
    ELSE IF IsAbstract(DictGet(reg, t))
    THEN [result |-> "TypeError", available |-> <<>>, inst |-> NoInstance]
    ELSE [result |-> "ok", available |-> <<>>,
          inst |-> [cls |-> DictGet(reg, t), id |-> Len(made) + 1]]

\* The registry once test_factory.py is imported.
ModuleRegistry ==
    register(register(register(<<>>, "replay", "ReplayTest").registry,
                      "performance", "PerformanceTest").registry,
             "recovery", "RecoveryTest").registry


NoOp == [op |-> "none", test_type |-> "", test_class |-> "", result |-> "",
         available |-> <<>>, inst |-> NoInstance, before |-> <<>>]

\* The sequence seq without the name n.
RemoveName(seq, n) ==
    LET Keep(x) == x # n IN SelectSeq(seq, Keep)

RegInit ==
    /\ registry = ModuleRegistry
    /\ created = <<>>
    /\ last = NoOp
    /\ regOrder = << "replay", "performance", "recovery" >>

Register(t, c) ==
    LET r == register(registry, t, c) IN
    /\ registry' = r.registry
    /\ last' = [op |-> "register", test_type |-> t, test_class |-> c,
                result |-> r.result, available |-> <<>>, inst |-> NoInstance,
                before |-> registry]
    /\ regOrder' = IF r.result = "ok" THEN Append(RemoveName(regOrder, t), t)
                   ELSE regOrder
    /\ UNCHANGED << created, notReg >>

Unregister(t) ==
    LET r == unregister(registry, t) IN
    /\ registry' = r.registry
    /\ last' = [op |-> "unregister", test_type |-> t, test_class |-> "",
                result |-> r.result, available |-> <<>>, inst |-> NoInstance,
                before |-> registry]
    /\ regOrder' = IF r.result = "ok" THEN RemoveName(regOrder, t) ELSE regOrder
    /\ UNCHANGED << created, notReg >>

CreateTest(t) ==
    LET r == create_test(registry, t, created) IN
    /\ r.result = "ok" => Len(created) < MaxCreated
    /\ created' = IF r.result = "ok" THEN Append(created, r.inst) ELSE created
    /\ last' = [op |-> "create_test", test_type |-> t, test_class |-> "",
                result |-> r.result, available |-> r.available, inst |-> r.inst,
                before |-> registry]
    /\ UNCHANGED << registry, regOrder, notReg >>

RegNext ==
    \/ \E t \in KindNames, c \in RegisterClasses : Register(t, c)
    \/ \E t \in KindNames : Unregister(t)
    \/ \E t \in KindNames : CreateTest(t)

\* ---------------------------------------------------- TestExecutionFactory
\* The strategy objects: one instance of each strategy class of
\* test_suites.py.  None of the classes defines __bool__ or __len__, so every
\* strategy object is true in a condition.
Strategies == {"ReplayExecutionStrategy", "PerformanceExecutionStrategy",
               "RecoveryExecutionStrategy", "NewExecutionStrategy"}

\* The names and strategies the strategy registry is called with.
StrategyNames == {"replay", "new_test", "custom_test"}
RegisterStrategies == {"ReplayExecutionStrategy", "RecoveryExecutionStrategy",
                       "NewExecutionStrategy"}

\* Variant of register_strategy that keeps a strategy that is already there.
register_strategyKeepFirst(strats, t, st) ==
    IF DictHas(strats, t) THEN strats ELSE DictSet(strats, t, st)

\* TestExecutionFactory.register_strategy(test_type, strategy):
\* _strategies[test_type] = strategy
register_strategy(strats, t, st) == DictSet(strats, t, st)

\* dict.get(k): the value of k, or None.
DictGetOrNone(d, k) == IF DictHas(d, k) THEN DictGet(d, k) ELSE "None"

\* not strategy: true of None; the strategy objects are all true.
IsFalsy(st) == st = "None"

\* TestExecutionFactory.get_strategy(test_type): _strategies.get(test_type),
\* and a ValueError when "not strategy".
get_strategy(strats, t) ==
    LET strategy == DictGetOrNone(strats, t) IN
    IF IsFalsy(strategy)
    THEN [result |-> "UnknownStrategy", strategy |-> ""]
    ELSE [result |-> "ok", strategy |-> strategy]

\* _strategies once test_suites.py is imported.
ModuleStrategies ==
    register_strategy(
        register_strategy(
            register_strategy(
                register_strategy(<<>>, "replay", "ReplayExecutionStrategy"),
                "performance", "PerformanceExecutionStrategy"),
            "recovery", "RecoveryExecutionStrategy"),
        "new_test", "NewExecutionStrategy")

AllNames == {"replay", "performance", "recovery", "new_test", "custom_test"}

NoStrategyOp == [op |-> "none", test_type |-> "", strategy |-> "", result |-> "",
                 before |-> <<>>]

StratInit ==
    /\ strategies = ModuleStrategies
    /\ lastS = NoStrategyOp
    /\ latest = [k \in AllNames |->
                   CASE k = "replay" -> "ReplayExecutionStrategy"
                     [] k = "performance" -> "PerformanceExecutionStrategy"
                     [] k = "recovery" -> "RecoveryExecutionStrategy"
                     [] k = "new_test" -> "NewExecutionStrategy"
                     [] OTHER -> "none"]

RegisterStrategy(t, st) ==
    /\ strategies' = register_strategy(strategies, t, st)
    /\ lastS' = [op |-> "register_strategy", test_type |-> t, strategy |-> st,
                 result |-> "ok", before |-> strategies]
    /\ latest' = [latest EXCEPT ![t] = st]
    /\ UNCHANGED notStrat

GetStrategy(t) ==
    LET r == get_strategy(strategies, t) IN
    /\ lastS' = [op |-> "get_strategy", test_type |-> t, strategy |-> r.strategy,
                 result |-> r.result, before |-> strategies]
    /\ UNCHANGED << strategies, latest, notStrat >>

StratNext ==
    \/ \E t \in StrategyNames, st \in RegisterStrategies : RegisterStrategy(t, st)
    \/ \E t \in StrategyNames : GetStrategy(t)

\* ------------------------------------------------------ execution strategies
\* The keyword arguments a strategy's execute passes to test.run.
StrategyKwargs(st) ==
    CASE st = "ReplayExecutionStrategy" ->
            [has_log_path |-> TRUE, log_path |-> "app.log",
             has_batch_data |-> TRUE, batch_data |-> BatchData]
      [] st = "PerformanceExecutionStrategy" ->
            [has_log_path |-> FALSE, log_path |-> "",
             has_batch_data |-> TRUE, batch_data |-> BatchData]
      [] OTHER ->
            [has_log_path |-> FALSE, log_path |-> "",
             has_batch_data |-> FALSE, batch_data |-> <<>>]

\* The signature of run: ReplayTest.run needs log_path and batch_data,
\* PerformanceTest.run needs batch_data, RecoveryTest.run needs neither;
\* what is passed beyond that ends in **kwargs.
RunAccepts(k, kw) ==
    CASE k = "ReplayTest" -> kw.has_log_path /\ kw.has_batch_data
      [] k = "PerformanceTest" -> kw.has_batch_data
      [] OTHER -> TRUE

\* test.run(...) with a required argument missing: a TypeError at the call,
\* before the body of run.
CallRejected(k, a, ss) ==
    /\ pc = "idle"
    /\ pc' = "failed"
    /\ test' = k
    /\ app_name' = a
    /\ stages' = ss
    /\ log_path' = ""
    /\ batch_data' = <<>>
    /\ results' = <<>>
    /\ idx' = 1
    /\ arg' = NoArg
    /\ calls' = <<>>
    /\ outs' = <<>>
    /\ outcome' = [tag |-> "raise", map |-> <<>>, exc |-> "TypeError: missing argument"]
    /\ UNCHANGED notRun

\* Variant of execute that answers a failed run with an empty result map.
StrategyReturnsEmptyOnFailure(o) ==
    IF o.tag = "raise" THEN [tag |-> "return", map |-> <<>>, exc |-> ""] ELSE o

\* execute: "return test.run(...)": what run gave is what execute gives.
StrategyReturns(o) == o

NoExec == [pc |-> "idle", strategy |-> "", test |-> "", app_name |-> "",
           stages |-> <<>>, outcome |-> NoOutcome]

ExecInit == exec = NoExec

\* strategy.execute(test, app_name, stages), test an instance of class k:
\* the one call of test.run.
Execute(st, k, a, ss) ==
    /\ exec.pc = "idle"
    /\ exec' = [pc |-> "running", strategy |-> st, test |-> k, app_name |-> a,
                stages |-> ss, outcome |-> NoOutcome]
    /\ LET kw == StrategyKwargs(st) IN
         IF RunAccepts(k, kw)
         THEN Call(k, a, ss, kw.log_path, kw.batch_data)
         ELSE CallRejected(k, a, ss)

\* run has ended and execute ends the same way.
ExecuteReturns ==
    /\ exec.pc = "running"
    /\ pc \in {"completed", "failed"}
    /\ LET o == StrategyReturns(outcome) IN
         exec' = [exec EXCEPT !.pc = IF o.tag = "return" THEN "returned" ELSE "raised",
                              !.outcome = o]
    /\ UNCHANGED << runVars, notRun >>

\* Some caller executes some strategy on an instance of some Test kind.
StartExecute ==
    /\ pc = "idle"
    /\ \E st \in Strategies, k \in TestKinds, a \in AppNames, ss \in StageSequences :
          Execute(st, k, a, ss)

ExecNext ==
    \/ StartExecute
    \/ Invoke
    \/ StageStep
    \/ Finish
    \/ ExecuteReturns

\* -------------------------------------------------------------- test suites
\* The test types and stage sequences create_test_suite is called with:
\* "new_test" has a strategy and no Test kind, "custom_test" has neither.
SuiteTypes == {"replay", "recovery", "new_test", "custom_test"}
SuiteSequences ==
    { get_replay_stages, get_recovery_stages,
      << Stage("send_batch", "custom"), Stage("connect", "connect_stage") >> }

\* result.log(...): the lines of a test case.  The line of a stage holds
\* the stage's name and test_result.get(stage.name, 'N/A'); the line that
\* reports the end holds test_result; the line of a failure holds str(e).
Line(kind, text) == [kind |-> kind, text |-> text, val |-> NoValue, map |-> <<>>]
StageLine(name, test_result) ==
    [Line("stage", name) EXCEPT
        !.val = IF DictHas(test_result, name) THEN DictGet(test_result, name)
                ELSE Val("N/A")]

\* Variant of test_case whose except clause logs and does not raise.
TestCaseEndSwallows(o, t, a, stgs) ==
    IF o.tag = "return"
    THEN [pc |-> "passed",
          log |-> << Line("executing", a),
                     [Line("completed", t) EXCEPT !.map = o.map] >>
                  \o [i \in 1..Len(stgs) |-> StageLine(stgs[i].name, o.map)],
          error |-> ""]
    ELSE [pc |-> "passed", log |-> << Line("error", o.exc) >>, error |-> ""]

\* test_case after the try block, o being what create_test or execute did:
\* a returned map is logged, then one line per stage of self.stages; an
\* exception is logged and raised again.
TestCaseEnd(o, t, a, stgs) ==
    IF o.tag = "return"
    THEN [pc |-> "passed",
          log |-> << Line("executing", a),
                     [Line("completed", t) EXCEPT !.map = o.map] >>
                  \o [i \in 1..Len(stgs) |-> StageLine(stgs[i].name, o.map)],
          error |-> ""]
    ELSE [pc |-> "failed", log |-> << Line("error", o.exc) >>, error |-> o.exc]

\* Variant of test_case that asks the strategy registry when it runs.
SuiteStrategyLate(s, strats) == get_strategy(strats, s.test_type).strategy

\* self.execution_strategy, read by test_case: the strategy __init__ got
\* from TestExecutionFactory.get_strategy.
SuiteStrategy(s, strats) == s.execution_strategy

NoSuite == [pc |-> "none", test_type |-> "", stages |-> <<>>, app_name |-> "",
            execution_strategy |-> "", seen |-> <<>>, seen_registry |-> <<>>,
            test |-> "",
            log |-> <<>>, error |-> ""]

SuiteInit == suite = NoSuite

notSuite == << runVars, regVars, stratVars, exec, analytics, run2 >>

\* create_test_suite(t, ss, a): CustomTestSuite() runs __init__, which gets
\* the strategy; seen and seen_registry are the two registries as __init__
\* found them.
CreateSuite(t, ss, a) ==
    /\ suite.pc = "none"
    /\ LET r == get_strategy(strategies, t) IN
         suite' = IF r.result = "ok"
                  THEN [NoSuite EXCEPT !.pc = "created", !.test_type = t,
                                       !.stages = ss, !.app_name = a,
                                       !.execution_strategy = r.strategy,
                                       !.seen = strategies,
                                       !.seen_registry = registry]
                  ELSE [NoSuite EXCEPT !.pc = "create_failed", !.test_type = t,
                                       !.seen = strategies,
                                       !.seen_registry = registry,
                                       !.error = r.result]
    /\ UNCHANGED notSuite

\* One change of a registry, before the suite is created or between its
\* creation and its test case.
RegistryChanges ==
    /\ suite.pc \in {"none", "created"}
    /\ last.op = "none"
    /\ lastS.op = "none"
    /\ \/ \E t \in KindNames, c \in RegisterClasses : Register(t, c)
       \/ \E t \in KindNames : Unregister(t)
       \/ \E t \in StrategyNames, st \in RegisterStrategies : RegisterStrategy(t, st)

\* test_case: test = self.test_factory.create_test(self.test_type); when
\* that raises, the except clause logs and raises again.
TestCaseCreates ==
    /\ suite.pc = "created"
    /\ LET r == create_test(registry, suite.test_type, created) IN
         /\ created' = IF r.result = "ok" THEN Append(created, r.inst) ELSE created
         /\ last' = [op |-> "create_test", test_type |-> suite.test_type,
                     test_class |-> "", result |-> r.result,
                     available |-> r.available, inst |-> r.inst,
                     before |-> registry]
         /\ suite' =
              IF r.result = "ok"
              THEN [suite EXCEPT !.pc = "test_created", !.test = r.inst.cls]
              ELSE LET end == TestCaseEnd([tag |-> "raise", map |-> <<>>,
                                           exc |-> r.result],
                                          suite.test_type, suite.app_name,
                                          suite.stages)
                   IN  [suite EXCEPT !.pc = end.pc, !.log = end.log,
                                     !.error = end.error]
    /\ UNCHANGED << registry, regOrder, runVars, stratVars, exec, analytics, run2 >>

\* test_case: self.execution_strategy.execute(test, self.app_name, self.stages)
TestCaseExecutes ==
    /\ suite.pc = "test_created"
    /\ exec.pc = "idle"
    /\ Execute(SuiteStrategy(suite, strategies), suite.test, suite.app_name,
               suite.stages)

\* test_case once execute has ended: the lines are logged and the test case
\* ends, passed or with the exception.
TestCaseEnds ==
    /\ suite.pc = "test_created"
    /\ exec.pc \in {"returned", "raised"}
    /\ LET end == TestCaseEnd(exec.outcome, suite.test_type, suite.app_name,
                              suite.stages)
       IN  suite' = [suite EXCEPT !.pc = end.pc, !.log = end.log,
                                  !.error = end.error]
    /\ UNCHANGED notSuite

\* Some caller builds a suite.
StartSuite ==
    /\ suite.pc = "none"
    /\ \E t \in SuiteTypes, ss \in SuiteSequences : CreateSuite(t, ss, "MyApp")

SuiteNext ==
    \/ StartSuite
    \/ RegistryChanges
    \/ TestCaseCreates
    \/ TestCaseExecutes
    \/ Invoke
    \/ StageStep
    \/ Finish
    \/ ExecuteReturns
    \/ TestCaseEnds

\* ------------------------------------------------- analytics functions alone
\* The keys the analytics stages look under.
AnalyticsKeys == {"send_batch", "read_log", "calculate_metrics"}

\* What a result map may hold under them: something that is no dict, the
\* dicts of MapOutputs, a status "error" dict, and an output of
\* calculate_metrics_stage.
EntryValues ==
    MapOutputs \cup
    { Val("True"), StatusDict("error"),
      MetricsOf(<< [key |-> "read_log", val |-> Measured(<<496, 104>>, "")] >>,
                <<496, 104>>).val }

\* Every result map over these keys, in every insertion order.
InputMaps ==
    { m \in UNION { [1..n -> [key : AnalyticsKeys, val : EntryValues]] :
                      n \in 0..Cardinality(AnalyticsKeys) } :
        \A i, j \in 1..Len(m) : m[i].key = m[j].key => i = j }

\* Every list handed to MetricsCalculator: lists of samples, and lists with
\* an element that is no number.
DataLists == SamplesUpTo(MaxSamples) \cup { <<0 - 1>>, <<104, 0 - 1>> }

NoResult == [tag |-> "none", val |-> NoValue, exc |-> ""]
NoAnalytics == [fn |-> "none", map |-> <<>>, data |-> <<>>, out |-> NoResult,
                exact |-> NoResult, plotted |-> <<>>]

AnalyticsInit == analytics = NoAnalytics

\* calculate_metrics_stage(m)
ApplyCalculateMetrics ==
    /\ analytics.fn = "none"
    /\ \E m \in InputMaps :
          analytics' = [NoAnalytics EXCEPT
                          !.fn = "calculate_metrics_stage",
                          !.map = m,
                          !.out = calculate_metrics_stage(DictArg(m))]
    /\ UNCHANGED notAnalytics

\* create_graphs_stage(m)
ApplyCreateGraphs ==
    /\ analytics.fn = "none"
    /\ \E m \in InputMaps : \E g \in create_graphs_stage(DictArg(m)) :
          analytics' = [NoAnalytics EXCEPT
                          !.fn = "create_graphs_stage",
                          !.map = m,
                          !.out = g.out,
                          !.plotted = g.plotted]
    /\ UNCHANGED notAnalytics

\* MetricsCalculator.process_metrics(d); exact is what calculate_metrics
\* returned inside it.
ApplyProcessMetrics ==
    /\ analytics.fn = "none"
    /\ \E d \in DataLists :
          analytics' = [NoAnalytics EXCEPT
                          !.fn = "process_metrics",
                          !.data = d,
                          !.exact = calculate_metrics(d),
                          !.out = process_metrics(d)]
    /\ UNCHANGED notAnalytics

AnalyticsNext ==
    \/ ApplyCalculateMetrics
    \/ ApplyCreateGraphs
    \/ ApplyProcessMetrics

\* ---------------------------------------------------------- specifications
vars == << runVars, regVars, stratVars, exec, analytics, run2, suite >>

Init ==
    /\ RunInit
    /\ RegInit
    /\ StratInit
    /\ ExecInit
    /\ AnalyticsInit
    /\ Run2Init
    /\ SuiteInit

\* ------------------------------------------------------------------ claims
\* The names of a stage sequence, in order.
NamesOf(ss) == [i \in 1..Len(ss) |-> ss[i].name]

NoDuplicates(seq) == \A i, j \in 1..Len(seq) : seq[i] = seq[j] => i = j

AllReturned == \A i \in 1..Len(outs) : outs[i].tag = "return"

\* C1: when the stage names are pairwise distinct and every action returns,
\* run returns a result map whose keys are the stage names, in sequence
\* order; a run whose actions all returned has not failed.
C1_KeysAreStageNames ==
    /\ (pc = "completed" /\ NoDuplicates(NamesOf(stages))) =>
          /\ outcome.tag = "return"
          /\ DictKeys(outcome.map) = NamesOf(stages)
    /\ (pc = "failed") => ~AllReturned

C1_Witness ==
    /\ pc = "completed"
    /\ test = "ReplayTest"
    /\ app_name = "MyApp"
    /\ stages = get_replay_stages
    /\ outcome.tag = "return"
    /\ DictKeys(outcome.map) = << "connect", "get_log", "inject_data" >>

\* C2: stages are invoked one at a time in sequence order, each at most
\* once; a stage is invoked only after every earlier stage has returned; a
\* completed run has invoked every stage exactly once.
C2_SequentialForwardOnly ==
    /\ \A i \in 1..Len(calls) : calls[i] = i
    /\ Len(calls) <= Len(stages)
    /\ Len(calls) = Len(outs) + (IF pc = "in_stage" THEN 1 ELSE 0)
    /\ \A i \in 1..Len(outs) : i < Len(calls) => outs[i].tag = "return"
    /\ pc = "completed" => (Len(calls) = Len(stages) /\ AllReturned)
    /\ (pc \in {"loop", "in_stage", "completed"}) => AllReturned
    /\ (pc = "loop" /\ idx > Len(stages)) => Len(calls) = Len(stages)

C2_Witness ==
    /\ pc = "completed"
    /\ calls = << 1, 2, 3 >>
    /\ \E i \in 1..Len(stages) : stages[i].action = "custom"

\* C3: when the action at position i raises, run ends failed with that same
\* failure, no later stage is invoked and no result map is returned.
C3_FailurePropagates ==
    /\ ~AllReturned =>
          /\ pc = "failed"
          /\ outs[Len(outs)].tag = "raise"
          /\ outcome.tag = "raise"
          /\ outcome.exc = outs[Len(outs)].exc
          /\ outcome.map = <<>>
          /\ calls = [i \in 1..Len(outs) |-> i]
    /\ pc = "failed" => ~AllReturned

C3_Witness ==
    /\ pc = "failed"
    /\ outcome.tag = "raise"
    /\ Len(results) >= 1
    /\ Len(calls) < Len(stages)

\* The stage being executed and its name.
InStage(k) == pc = "in_stage" /\ test = k
CurrentName == stages[idx].name

\* C4 as stated: in ReplayTest.run connect and get_log receive the target
\* name, inject_data the batch data and every other name, read_log included,
\* the result map.
C4_Original ==
    InStage("ReplayTest") =>
        arg = CASE CurrentName \in {"connect", "get_log"} -> StrArg(app_name)
                [] CurrentName = "inject_data" -> DictArg(batch_data)
                [] OTHER -> DictArg(results)

\* C4 amended: in ReplayTest.run connect and get_log receive the target
\* name, read_log the log path run was given, inject_data the batch data and
\* every other name the result map accumulated so far.
C4_ReplayBinding ==
    InStage("ReplayTest") =>
        arg = CASE CurrentName \in {"connect", "get_log"} -> StrArg(app_name)
                [] CurrentName = "read_log" -> StrArg(log_path)
                [] CurrentName = "inject_data" -> DictArg(batch_data)
                [] OTHER -> DictArg(results)

C4_Witness ==
    /\ InStage("ReplayTest")
    /\ CurrentName = "read_log"
    /\ results # <<>>
    /\ arg = StrArg("app.log")

\* The map holds the output of every earlier stage under its name.
HoldsAllEarlierOutputs(m) ==
    \A j \in 1..(idx - 1) :
        DictHas(m, stages[j].name) /\ DictGet(m, stages[j].name) = outs[j].val

\* The map holds, under the name of every earlier stage, the output of the
\* latest earlier stage of that name.
HoldsLatestEarlierOutputs(m) ==
    \A j \in 1..(idx - 1) :
        (\A l \in (j + 1)..(idx - 1) : stages[l].name # stages[j].name) =>
            (DictHas(m, stages[j].name) /\ DictGet(m, stages[j].name) = outs[j].val)

NothingElse(m) ==
    /\ \A i \in 1..Len(m) : \E j \in 1..(idx - 1) : stages[j].name = m[i].key
    /\ NoDuplicates(DictKeys(m))

\* C5 as stated: in PerformanceTest.run connect receives the target name,
\* send_batch the batch data and every other name the result map, which holds
\* the outputs of all earlier stages and nothing else.
C5_Original ==
    InStage("PerformanceTest") =>
        CASE CurrentName = "connect" -> arg = StrArg(app_name)
          [] CurrentName = "send_batch" -> arg = DictArg(batch_data)
          [] OTHER -> /\ arg = DictArg(results)
                      /\ HoldsAllEarlierOutputs(arg.map)
                      /\ NothingElse(arg.map)

\* C5 amended: as stated, but the map holds under each earlier stage's name
\* the output of the latest earlier stage of that name (all earlier outputs
\* when the earlier names are pairwise distinct), and nothing else.
C5_PerformanceBinding ==
    InStage("PerformanceTest") =>
        CASE CurrentName = "connect" -> arg = StrArg(app_name)
          [] CurrentName = "send_batch" -> arg = DictArg(batch_data)
          [] OTHER -> /\ arg = DictArg(results)
                      /\ HoldsLatestEarlierOutputs(arg.map)
                      /\ NothingElse(arg.map)
                      /\ NoDuplicates([j \in 1..(idx - 1) |-> stages[j].name])
                            => HoldsAllEarlierOutputs(arg.map)

C5_Witness ==
    /\ InStage("PerformanceTest")
    /\ CurrentName = "calculate_metrics"
    /\ idx = 3
    /\ NamesOf(stages) = << "connect", "send_batch", "calculate_metrics" >>
    /\ arg = DictArg(<< [key |-> "connect", val |-> Val("True")],
                        [key |-> "send_batch", val |-> Val("out_a")] >>)

\* C6: in RecoveryTest.run connect receives the target name, read_log one
\* fixed log path whatever its position, the result map and run's own
\* arguments, and every other name the result map accumulated so far.
C6_RecoveryBinding ==
    InStage("RecoveryTest") =>
        arg = CASE CurrentName = "connect" -> StrArg(app_name)
                [] CurrentName = "read_log" -> StrArg("dummy_recovery_log.txt")
                [] OTHER -> DictArg(results)

C6_Witness ==
    /\ InStage("RecoveryTest")
    /\ CurrentName = "read_log"
    /\ idx > 1
    /\ results # <<>>
    /\ arg = StrArg("dummy_recovery_log.txt")

\* The last operation was op.
Did(op) == last.op = op

\* The entries of d whose key is not k, in d's order.
Without(d, k) ==
    LET Keep(e) == e.key # k IN SelectSeq(d, Keep)

\* C7 as stated: register on a registered name fails with DuplicateKind and
\* leaves the registry unchanged.
C7_Original ==
    (Did("register") /\ DictHas(last.before, last.test_type)) =>
        /\ last.result = "DuplicateKind"
        /\ registry = last.before

\* C7 amended: register on a registered name fails and leaves the registry
\* unchanged: with DuplicateKind when the class is a Test class, with
\* InvalidCapability when it is not; a register that succeeds was for a name
\* that was not registered, and appends it.
C7_RegisterOnceOnly ==
    /\ (Did("register") /\ DictHas(last.before, last.test_type)) =>
          /\ last.result =
                (IF IsSubclassOfTest(last.test_class) THEN "DuplicateKind"
                 ELSE "InvalidCapability")
          /\ registry = last.before
    /\ (Did("register") /\ last.result = "ok") =>
          /\ ~DictHas(last.before, last.test_type)
          /\ registry = Append(last.before,
                               [key |-> last.test_type, val |-> last.test_class])
    /\ NoDuplicates(DictKeys(registry))

C7_Witness ==
    /\ Did("register")
    /\ last.test_type = "new_test"
    /\ last.result = "DuplicateKind"
    /\ Len(registry) = 3
    /\ registry[3].key = "new_test"

\* C8 as stated: register rejects with InvalidCapability, leaving the
\* registry unchanged, every class that is no Test class or does not
\* implement run (checked here for names that are free, where no other error
\* competes); so create_test returns an instance for every registered name.
C8_Original ==
    /\ (Did("register")
          /\ ~DictHas(last.before, last.test_type)
          /\ (~IsSubclassOfTest(last.test_class) \/ IsAbstract(last.test_class))) =>
          /\ last.result = "InvalidCapability"
          /\ registry = last.before
    /\ (Did("create_test") /\ DictHas(last.before, last.test_type)) =>
          /\ last.result = "ok"
          /\ last.inst # NoInstance

\* C9: unregister of a name that is not registered ends without error and
\* leaves the registry unchanged; unregister removes the named entry only,
\* keeps the order of the others, and a second unregister changes nothing.
C9_UnregisterIdempotent ==
    Did("unregister") =>
        /\ last.result = "ok"
        /\ ~DictHas(last.before, last.test_type) => registry = last.before
        /\ registry = Without(last.before, last.test_type)
        /\ unregister(registry, last.test_type) =
              [registry |-> registry, result |-> "ok"]

C9_Witness ==
    /\ Did("unregister")
    /\ ~DictHas(last.before, last.test_type)
    /\ last.result = "ok"
    /\ Len(registry) >= 2
    /\ registry = last.before

\* C10: create_test fails with UnknownKind exactly when the name is not
\* registered, and then reports the registered names in insertion order; when
\* it succeeds it returns an instance of the registered class that is none
\* of the instances returned before; the registry is unchanged either way.
C10_CreateTest ==
    /\ Did("create_test") =>
          /\ (last.result = "UnknownKind") <=> ~DictHas(last.before, last.test_type)
          /\ last.result = "UnknownKind" =>
                /\ last.available = DictKeys(last.before)
                /\ last.inst = NoInstance
          /\ last.result = "ok" =>
                /\ last.inst.cls = DictGet(last.before, last.test_type)
                /\ created # <<>>
                /\ created[Len(created)] = last.inst
          /\ registry = last.before
    /\ NoDuplicates(created)

C10_Witness ==
    /\ Did("create_test")
    /\ last.result = "ok"
    /\ Len(created) = 2
    /\ created[1].cls = created[2].cls
    /\ created[1] # created[2]

C10_WitnessUnknown ==
    /\ Did("create_test")
    /\ last.result = "UnknownKind"
    /\ last.available = << "performance", "new_test", "replay" >>

\* C11: get_registered_types returns exactly the names registered now, each
\* once, the name whose latest successful registration is oldest first; once
\* the module is imported the list is replay, performance, recovery.
C11_RegisteredTypesOrder ==
    /\ get_registered_types(registry) = regOrder
    /\ NoDuplicates(get_registered_types(registry))
    /\ \A k \in KindNames \cup {"performance"} :
          DictHas(registry, k) <=>
             (\E i \in 1..Len(get_registered_types(registry)) :
                 get_registered_types(registry)[i] = k)
    /\ last = NoOp => get_registered_types(registry) = << "replay", "performance", "recovery" >>

C11_Witness ==
    /\ Did("register")
    /\ last.result = "ok"
    /\ last.test_type = "replay"
    /\ get_registered_types(registry) = << "performance", "recovery", "replay" >>

\* C12: register_strategy never fails and replaces what the name had;
\* get_strategy returns the strategy the name was given last and fails with
\* UnknownStrategy exactly for a name that was never given one, so a name
\* that has a strategy keeps having one.
C12_StrategyLastWins ==
    /\ lastS.op = "register_strategy" =>
          /\ lastS.result = "ok"
          /\ get_strategy(strategies, lastS.test_type) =
                [result |-> "ok", strategy |-> lastS.strategy]
          /\ \A k \in AllNames \ {lastS.test_type} :
                get_strategy(strategies, k) = get_strategy(lastS.before, k)
    /\ lastS.op = "get_strategy" =>
          /\ (lastS.result = "UnknownStrategy") <=> (latest[lastS.test_type] = "none")
          /\ lastS.result = "ok" => lastS.strategy = latest[lastS.test_type]
          /\ lastS.result \in {"ok", "UnknownStrategy"}
          /\ strategies = lastS.before
    /\ \A k \in AllNames :
          get_strategy(strategies, k) =
             (IF latest[k] = "none" THEN [result |-> "UnknownStrategy", strategy |-> ""]
              ELSE [result |-> "ok", strategy |-> latest[k]])

C12_Witness ==
    /\ lastS.op = "get_strategy"
    /\ lastS.test_type = "replay"
    /\ lastS.result = "ok"
    /\ lastS.strategy = "NewExecutionStrategy"
    /\ latest["custom_test"] = "none"

\* C13: a strategy's execute calls run of the given Test kind once, with the
\* caller's target name and stage sequence, and ends as run ended: the same
\* result map, entry for entry, or the same failure.
C13_StrategyPassesThrough ==
    /\ exec.pc # "idle" =>
          /\ pc # "idle"
          /\ test = exec.test
          /\ app_name = exec.app_name
          /\ stages = exec.stages
    /\ exec.pc = "running" => exec.outcome = NoOutcome
    /\ exec.pc \in {"returned", "raised"} =>
          /\ pc \in {"completed", "failed"}
          /\ exec.outcome = outcome
          /\ exec.pc = "returned" <=> pc = "completed"
          /\ exec.pc = "returned" => exec.outcome.map = results
          /\ (exec.pc = "raised" /\ outs # <<>>) =>
                exec.outcome.exc = outs[Len(outs)].exc

C13_Witness ==
    /\ exec.pc = "returned"
    /\ exec.strategy = "PerformanceExecutionStrategy"
    /\ exec.test = "PerformanceTest"
    /\ Len(exec.outcome.map) = 3

C13_WitnessRaised ==
    /\ exec.pc = "raised"
    /\ exec.strategy = "RecoveryExecutionStrategy"
    /\ Len(outs) = 2

\* What the result map given to the analytics function holds under key k.
Entry(k) == DictGet(analytics.map, k)
Supplies(k) ==
    /\ DictHas(analytics.map, k)
    /\ IsDict(Entry(k))
    /\ GetResponseTimes(Entry(k)) # <<>>
AllNumeric(s) == \A i \in 1..Len(s) : IsNumeric(s[i])
\* The metrics were computed of the response times under k, or, those
\* holding a value that is no number, the attempt on them was reported.
Computed(k) ==
    /\ analytics.out.tag = "return"
    /\ IF AllNumeric(Entry(k).rt)
       THEN /\ analytics.out.val.status = "success"
            /\ analytics.out.val.rt = Entry(k).rt
       ELSE /\ analytics.out.val.status = "error"
            /\ analytics.out.val.error
                 = "Input data must contain only numerical values"

\* C14: calculate_metrics_stage looks for response times under send_batch
\* first and under read_log second, and the first non-empty one wins: when
\* send_batch supplies response times they are the ones used, whatever
\* read_log holds; when send_batch is there without response times, or is
\* not there, and read_log supplies them, read_log's are used.  On a map
\* with both supplying, source is "send_batch"; on a map with read_log only,
\* source is "read_log".  Response times that hold a value that is no number
\* are selected in the same order, and the output then is the status "error"
\* value, which has no source.
C14_SendBatchThenReadLog ==
    analytics.fn = "calculate_metrics_stage" =>
        /\ Supplies("send_batch") => Computed("send_batch")
        /\ ( /\ Supplies("send_batch")
             /\ Supplies("read_log")
             /\ AllNumeric(Entry("send_batch").rt) )
              => analytics.out.val.source = "send_batch"
        /\ ( /\ DictHas(analytics.map, "send_batch") => IsDict(Entry("send_batch"))
             /\ ~Supplies("send_batch")
             /\ Supplies("read_log") ) => Computed("read_log")
        /\ ( /\ ~DictHas(analytics.map, "send_batch")
             /\ Supplies("read_log")
             /\ AllNumeric(Entry("read_log").rt) )
              => analytics.out.val.source = "read_log"

\* Both keys supply different response times and send_batch's were used.
C14_Witness ==
    /\ analytics.fn = "calculate_metrics_stage"
    /\ Supplies("send_batch")
    /\ Supplies("read_log")
    /\ Entry("send_batch").rt # Entry("read_log").rt
    /\ Computed("send_batch")
    /\ analytics.out.val.source = "send_batch"

\* Only read_log is there and its response times were used.
C14_WitnessReadLog ==
    /\ analytics.fn = "calculate_metrics_stage"
    /\ ~DictHas(analytics.map, "send_batch")
    /\ Supplies("read_log")
    /\ Computed("read_log")
    /\ analytics.out.val.source = "read_log"

\* The stage invoked last, once its action has ended, and what it was given.
LastEnded(action) ==
    /\ Len(calls) > 0
    /\ Len(outs) = Len(calls)
    /\ stages[calls[Len(calls)]].action = action
LastOut == outs[Len(outs)]
ArgSupplies(k) ==
    /\ DictHas(arg.map, k)
    /\ IsDict(DictGet(arg.map, k))
    /\ GetResponseTimes(DictGet(arg.map, k)) # <<>>
ArgEntriesAreDicts ==
    \A k \in {"send_batch", "read_log"} :
        DictHas(arg.map, k) => IsDict(DictGet(arg.map, k))

\* C15: on a result map in which neither send_batch nor read_log supplies a
\* non-empty response_times (both keys absent, a key present without the
\* field, or the list empty), calculate_metrics_stage raises and returns no
\* status value; the error is the ValueError "No response times found in
\* results" whenever the entries that are present are dicts.  The run that
\* invoked it fails with that error, and no stage, create_graphs included, is
\* invoked after a calculate_metrics that raised.
C15_MissingDataRaises ==
    /\ ( /\ LastEnded("calculate_metrics_stage")
         /\ ~ArgSupplies("send_batch")
         /\ ~ArgSupplies("read_log") )
       => /\ LastOut.tag = "raise"
          /\ ArgEntriesAreDicts => LastOut.exc = NoResponseTimes
          /\ pc = "failed"
          /\ outcome = [tag |-> "raise", map |-> <<>>, exc |-> LastOut.exc]
    /\ \A k \in 1..Len(outs) :
          ( /\ stages[calls[k]].action = "calculate_metrics_stage"
            /\ outs[k].tag = "raise" )
          => /\ k = Len(calls)
             /\ \A j \in 1..Len(calls) :
                   stages[calls[j]].action # "create_graphs_stage"

\* A run whose send_batch stage returned an empty response_times failed in
\* calculate_metrics, with create_graphs still to come.
C15_Witness ==
    /\ LastEnded("calculate_metrics_stage")
    /\ DictHas(arg.map, "send_batch")
    /\ DictGet(arg.map, "send_batch").has_rt
    /\ DictGet(arg.map, "send_batch").rt = <<>>
    /\ LastOut = Raises(NoResponseTimes)
    /\ pc = "failed"
    /\ idx < Len(stages)
    /\ stages[idx + 1].action = "create_graphs_stage"

\* A run with neither key in the map failed in calculate_metrics.
C15_WitnessAbsent ==
    /\ LastEnded("calculate_metrics_stage")
    /\ ~DictHas(arg.map, "send_batch")
    /\ ~DictHas(arg.map, "read_log")
    /\ LastOut = Raises(NoResponseTimes)
    /\ pc = "failed"

\* A run whose read_log stage returned a dict without response_times failed
\* in calculate_metrics.
C15_WitnessNoField ==
    /\ LastEnded("calculate_metrics_stage")
    /\ DictHas(arg.map, "read_log")
    /\ IsDict(DictGet(arg.map, "read_log"))
    /\ ~DictGet(arg.map, "read_log").has_rt
    /\ LastOut = Raises(NoResponseTimes)
    /\ pc = "failed"

\* C16: create_graphs_stage hands the grapher no response times but those of
\* the calculate_metrics entry of the result map; when that entry is absent,
\* has no response_times or has an empty one, the stage raises without a
\* single call to the grapher (so no file is written), and the error is the
\* ValueError "No response times found in metrics results" whenever the
\* entry is absent or is a dict.
C16_GraphsFromMetricsEntryOnly ==
    analytics.fn = "create_graphs_stage" =>
        /\ \A i \in 1..Len(analytics.plotted) :
              /\ Supplies("calculate_metrics")
              /\ analytics.plotted[i].response_times = Entry("calculate_metrics").rt
        /\ ~Supplies("calculate_metrics")
              => /\ analytics.out.tag = "raise"
                 /\ analytics.plotted = <<>>
                 /\ ( DictHas(analytics.map, "calculate_metrics")
                        => IsDict(Entry("calculate_metrics")) )
                      => analytics.out.exc = NoMetricsTimes

\* send_batch supplies response times, the calculate_metrics entry has an
\* empty list: the stage raised and the grapher was not called.
C16_Witness ==
    /\ analytics.fn = "create_graphs_stage"
    /\ Supplies("send_batch")
    /\ DictHas(analytics.map, "calculate_metrics")
    /\ Entry("calculate_metrics").has_rt
    /\ Entry("calculate_metrics").rt = <<>>
    /\ analytics.out = Raises(NoMetricsTimes)
    /\ analytics.plotted = <<>>

\* send_batch supplies response times and there is no calculate_metrics
\* entry: the stage raised and the grapher was not called.
C16_WitnessAbsent ==
    /\ analytics.fn = "create_graphs_stage"
    /\ Supplies("send_batch")
    /\ ~DictHas(analytics.map, "calculate_metrics")
    /\ analytics.out = Raises(NoMetricsTimes)
    /\ analytics.plotted = <<>>

\* The calculate_metrics entry and the send_batch entry hold different
\* response times and both plots were made of the former.
C16_WitnessPlotted ==
    /\ analytics.fn = "create_graphs_stage"
    /\ Supplies("send_batch")
    /\ Supplies("calculate_metrics")
    /\ Entry("send_batch").rt # Entry("calculate_metrics").rt
    /\ Len(analytics.plotted) = 2
    /\ analytics.plotted[2].response_times = Entry("calculate_metrics").rt
    /\ analytics.out.val.status = "success"

\* p90 <= p95 <= p99 <= max and min <= median <= max
Ordered(m) ==
    /\ m.p90 <= m.p95
    /\ m.p95 <= m.p99
    /\ m.p99 <= m.max
    /\ m.min <= m.median
    /\ m.median <= m.max

NumericData ==
    /\ analytics.fn = "process_metrics"
    /\ analytics.data # <<>>
    /\ \A i \in 1..Len(analytics.data) : IsNumeric(analytics.data[i])

\* C17: for every non-empty list of numbers, calculate_metrics returns
\* metrics with p90 <= p95 <= p99 <= max and min <= median <= max, and the
\* values format_metrics rounds to two decimals are in the same order.
C17_MetricsOrdered ==
    NumericData =>
        /\ analytics.exact.tag = "return"
        /\ Ordered(analytics.exact.val.metrics)
        /\ analytics.out.tag = "return"
        /\ analytics.out.val.metrics = format_metrics(analytics.exact.val.metrics)
        /\ Ordered(analytics.out.val.metrics)

\* Samples given in descending order whose percentiles all differ, before
\* and after rounding.
C17_Witness ==
    /\ NumericData
    /\ Len(analytics.data) > 1
    /\ analytics.data[1] > analytics.data[2]
    /\ analytics.exact.val.metrics.p90 < analytics.exact.val.metrics.p95
    /\ analytics.exact.val.metrics.p99 < analytics.exact.val.metrics.max
    /\ analytics.out.val.metrics.p90 < analytics.out.val.metrics.p95
    /\ analytics.out.val.metrics.p99 < analytics.out.val.metrics.max

\* Samples whose percentiles differ and are the same once rounded.
C17_WitnessRounded ==
    /\ NumericData
    /\ analytics.exact.val.metrics.p90 < analytics.exact.val.metrics.max
    /\ analytics.exact.val.metrics.min < analytics.exact.val.metrics.median
    /\ analytics.out.val.metrics.p90 = analytics.out.val.metrics.max
    /\ analytics.out.val.metrics.min = analytics.out.val.metrics.median

\* The map made of the outputs of the first n stage invocations of one run:
\* cs are the positions it invoked in stgs, os what the actions did.
RECURSIVE Produced(_, _, _, _)
Produced(stgs, cs, os, n) ==
    IF n = 0 THEN <<>>
    ELSE IF os[n].tag = "return"
         THEN DictSet(Produced(stgs, cs, os, n - 1), stgs[cs[n]].name, os[n].val)
         ELSE Produced(stgs, cs, os, n - 1)

OwnsItsMap ==
    /\ results = Produced(stages, calls, outs, Len(outs))
    /\ run2.results = Produced(run2.stages, run2.calls, run2.outs, Len(run2.outs))
    /\ pc = "completed" => outcome = [tag |-> "return", map |-> results, exc |-> ""]
    /\ run2.pc = "completed"
          => run2.outcome = [tag |-> "return", map |-> run2.results, exc |-> ""]

\* C18: with the steps of two runs interleaved in any order, the map of each
\* run, and the map it returns, is made of the outputs of that run's own
\* stage invocations and nothing else, and a step of one run leaves the map
\* and the outcome of the other as they are.
C18_RunsOwnTheirMaps ==
    /\ []OwnsItsMap
    /\ [][ /\ run2' # run2 => UNCHANGED << results, outcome >>
           /\ runVars' # runVars
                => /\ run2'.results = run2.results
                   /\ run2'.outcome = run2.outcome ]_vars

\* Both runs are inside a stage of the same sequence, each with entries in
\* its map, and the two maps differ.
C18_Witness ==
    /\ pc = "in_stage"
    /\ run2.pc = "in_stage"
    /\ stages = run2.stages
    /\ results # <<>>
    /\ run2.results # <<>>
    /\ DictKeys(results) = DictKeys(run2.results)
    /\ results # run2.results

\* Both runs of one sequence returned, with different maps.
C18_WitnessReturned ==
    /\ pc = "completed"
    /\ run2.pc = "completed"
    /\ stages = run2.stages
    /\ outcome.map # run2.outcome.map
    /\ outcome.map # <<>>

\* The test case has ended.
Ended == suite.pc \in {"passed", "failed"}
CreateTestFailed == last.op = "create_test" /\ last.result # "ok"
HasLine(kind) == \E i \in 1..Len(suite.log) : suite.log[i].kind = kind

\* C19: a test case in which create_test raised, or execute raised (a stage
\* failure that aborted the run included), logs one error line with the
\* exception's message and ends failed with that same exception; a test case
\* that ends passed had create_test and execute return and every stage of
\* the run return; the per-stage lines are in the log only when the run
\* completed, one per stage of the suite in order, after the two lines that
\* report the execution.
C19_FailureLoggedAndReraised ==
    /\ Ended /\ (CreateTestFailed \/ exec.pc = "raised" \/ pc = "failed")
          => suite.pc = "failed"
    /\ suite.pc = "failed"
          => /\ suite.log = << Line("error", suite.error) >>
             /\ \/ CreateTestFailed /\ exec.pc = "idle" /\ suite.error = last.result
                \/ /\ exec.pc = "raised"
                   /\ pc = "failed"
                   /\ suite.error = outcome.exc
                   /\ outs # <<>> => suite.error = outs[Len(outs)].exc
    /\ suite.pc = "passed"
          => /\ ~CreateTestFailed
             /\ exec.pc = "returned"
             /\ pc = "completed"
             /\ \A k \in 1..Len(outs) : outs[k].tag = "return"
             /\ ~HasLine("error")
    /\ HasLine("stage")
          => /\ pc = "completed"
             /\ Len(suite.log) = 2 + Len(suite.stages)
             /\ suite.log[1].kind = "executing"
             /\ suite.log[2].kind = "completed"
             /\ suite.log[2].map = outcome.map
             /\ \A i \in 1..Len(suite.stages) :
                   suite.log[2 + i] = StageLine(suite.stages[i].name, outcome.map)

\* A stage failed, the run was aborted, and the test case logged the
\* stage's exception and ended failed with it.
C19_Witness ==
    /\ suite.pc = "failed"
    /\ pc = "failed"
    /\ outs # <<>>
    /\ outs[Len(outs)].tag = "raise"
    /\ suite.error = outs[Len(outs)].exc
    /\ suite.log = << Line("error", outs[Len(outs)].exc) >>
    /\ idx < Len(suite.stages)

\* create_test raised and the test case logged it and ended failed.
C19_WitnessCreate ==
    /\ suite.pc = "failed"
    /\ CreateTestFailed
    /\ suite.log = << Line("error", "UnknownKind") >>

\* The run completed and the lines of its stages are in the log.
C19_WitnessPassed ==
    /\ suite.pc = "passed"
    /\ Len(suite.stages) > 1
    /\ Len(suite.log) = 2 + Len(suite.stages)
    /\ HasLine("stage")

\* The test case has called execute.
Executing == suite.pc \in {"test_created", "passed", "failed"} /\ exec.pc # "idle"
\* The test case has called create_test; no registry changes after that, so
\* registry and strategies are what they were when the test case began.
TestCaseBegun == suite.pc \in {"test_created", "passed", "failed"}

\* C20 as stated: the test case looks both registries up when it is
\* invoked, so the Test kind it runs is the one the Test registry holds then
\* and the strategy it executes is the one the strategy registry holds then.
C20_Original ==
    Executing =>
        /\ DictHas(registry, suite.test_type)
        /\ exec.test = DictGet(registry, suite.test_type)
        /\ get_strategy(strategies, suite.test_type)
             = [result |-> "ok", strategy |-> exec.strategy]

\* C20, amended: the strategy is looked up once, by create_test_suite, in
\* the strategy registry as it is then, and a suite exists only if that
\* lookup succeeds; the test case instantiates the Test kind from the Test
\* registry as it is when the test case is invoked (failing with what
\* create_test raises there), then executes that instance with the strategy
\* held since creation, on the suite's app_name and stages, and logs only
\* after execute has ended.
C20_StrategyFromCreation ==
    /\ suite.pc = "create_failed"
          => /\ get_strategy(suite.seen, suite.test_type).result # "ok"
             /\ exec.pc = "idle"
             /\ suite.log = <<>>
    /\ suite.pc \notin {"none", "create_failed"}
          => get_strategy(suite.seen, suite.test_type)
               = [result |-> "ok", strategy |-> suite.execution_strategy]
    /\ TestCaseBegun
          => /\ last.op = "create_test"
             /\ last.before = registry
             /\ IF suite.test # ""
                THEN /\ DictHas(registry, suite.test_type)
                     /\ suite.test = DictGet(registry, suite.test_type)
                ELSE /\ suite.pc = "failed"
                     /\ exec.pc = "idle"
                     /\ suite.error
                          = create_test(registry, suite.test_type, created).result
    /\ Executing
          => /\ suite.test # ""
             /\ exec.test = suite.test
             /\ exec.strategy = suite.execution_strategy
             /\ exec.app_name = suite.app_name
             /\ exec.stages = suite.stages
    /\ suite.log # <<>>
          => \/ exec.pc \in {"returned", "raised"}
             \/ exec.pc = "idle" /\ suite.test = ""

\* register_strategy replaced the suite's strategy between create_test_suite
\* and the test case, and the test case executed the old one.
C20_Witness ==
    /\ suite.pc = "passed"
    /\ suite.seen # strategies
    /\ DictGet(suite.seen, suite.test_type) # DictGet(strategies, suite.test_type)
    /\ exec.strategy = DictGet(suite.seen, suite.test_type)

\* unregister removed the suite's Test kind between create_test_suite and
\* the test case, and the test case failed with UnknownKind.
C20_WitnessUnregister ==
    /\ suite.pc = "failed"
    /\ DictHas(suite.seen_registry, suite.test_type)
    /\ ~DictHas(registry, suite.test_type)
    /\ suite.error = "UnknownKind"
    /\ exec.pc = "idle"

\* The entries the stages at positions 1..n left, in that order.
EntriesUpTo(n) == [j \in 1..n |-> [key |-> stages[j].name, val |-> outs[j].val]]

\* m is d with one entry more at its end.
GrowsByOne(d, m) ==
    /\ Len(m) = Len(d) + 1
    /\ \A i \in 1..Len(d) : m[i] = d[i]

\* C21: in a run over a sequence of pairwise distinct names, when the stage
\* at position idx is invoked the result map holds exactly the outputs of
\* the stages before it, under their names and in their order; a step of the
\* run leaves the map as it is or, when a stage returns, adds one entry at
\* its end (that stage's name and output) and touches no other entry; and
\* when calculate_metrics_stage or create_graphs_stage has returned, the map
\* it was handed is still what it was at the call.
C21_MapOnlyGrows ==
    /\ [](NoDuplicates(NamesOf(stages)) =>
            /\ pc \in {"loop", "in_stage", "failed"} => results = EntriesUpTo(idx - 1)
            /\ pc = "in_stage" /\ arg.tag = "dict" /\ arg # DictArg(batch_data)
                  => arg.map = EntriesUpTo(idx - 1)
            /\ \A action \in {"calculate_metrics_stage", "create_graphs_stage"} :
                  LastEnded(action) /\ LastOut.tag = "return"
                     => /\ arg.map = EntriesUpTo(idx - 2)
                        /\ GrowsByOne(arg.map, results))
    /\ [][ (pc # "idle" /\ NoDuplicates(NamesOf(stages))) =>
             \/ results' = results
             \/ /\ pc = "in_stage"
                /\ pc' = "loop"
                /\ GrowsByOne(results, results')
                /\ results'[Len(results')]
                     = [key |-> stages[idx].name, val |-> outs'[Len(outs')].val] ]_vars

\* create_graphs is being invoked in the built-in performance sequence and
\* the map holds the outputs of connect, send_batch and calculate_metrics.
C21_Witness ==
    /\ pc = "in_stage"
    /\ stages = get_performance_stages
    /\ idx = 4
    /\ arg = DictArg(results)
    /\ DictKeys(results) = << "connect", "send_batch", "calculate_metrics" >>
    /\ results = EntriesUpTo(3)

\* create_graphs has returned in the built-in recovery sequence and the map
\* has its four entries.
C21_WitnessGraphs ==
    /\ LastEnded("create_graphs_stage")
    /\ stages = get_recovery_stages
    /\ LastOut.tag = "return"
    /\ Len(results) = 4
    /\ arg.map = EntriesUpTo(3)

Succeeded(fn) ==
    /\ analytics.fn = fn
    /\ analytics.out.tag = "return"
    /\ analytics.out.val.status = "success"

\* C22 as stated: whenever calculate_metrics_stage succeeds, the key its
\* output names under source is in the result map and the response times of
\* that entry are the response times of the output.
C22_Original ==
    Succeeded("calculate_metrics_stage") =>
        /\ DictHas(analytics.map, analytics.out.val.source)
        /\ IsDict(Entry(analytics.out.val.source))
        /\ GetResponseTimes(Entry(analytics.out.val.source)) = analytics.out.val.rt

\* The response times calculate_metrics_stage selects in the map it was
\* handed: those of send_batch if it supplies any, else those of read_log.
ArgSelected ==
    IF ArgSupplies("send_batch") THEN DictGet(arg.map, "send_batch").rt
    ELSE IF ArgSupplies("read_log") THEN DictGet(arg.map, "read_log").rt
    ELSE <<>>

\* C23: when calculate_metrics_stage succeeds in a run, the response_times
\* of its output is the sequence it selected, element for element, and
\* sample_size is the length of that sequence (the number of generated
\* samples after the built-in read_log or send_batch); when create_graphs
\* is invoked after it, the calculate_metrics entry it is handed holds that
\* very sequence and every call it makes to the grapher carries it.
C23_SamplesPassedOnUnchanged ==
    /\ ( /\ LastEnded("calculate_metrics_stage")
         /\ LastOut.tag = "return"
         /\ LastOut.val.status = "success" )
       => /\ ArgSelected # <<>>
          /\ LastOut.val.has_rt
          /\ LastOut.val.rt = ArgSelected
          /\ LastOut.val.sample_size = Len(ArgSelected)
          /\ stages \in {get_performance_stages, get_recovery_stages}
                => LastOut.val.sample_size = SampleSize
    /\ ( /\ pc = "in_stage"
         /\ stages[idx].action = "create_graphs_stage"
         /\ DictHas(arg.map, "calculate_metrics")
         /\ DictGet(arg.map, "calculate_metrics").status = "success" )
       => /\ DictGet(arg.map, "calculate_metrics").rt = ArgSelected
          /\ \A g \in create_graphs_stage(arg) :
                /\ g.plotted # <<>>
                /\ \A i \in 1..Len(g.plotted) :
                      g.plotted[i].response_times = ArgSelected

\* create_graphs is invoked in the built-in performance sequence and is
\* handed the samples send_batch generated, which are not in ascending
\* order.
C23_Witness ==
    /\ pc = "in_stage"
    /\ stages = get_performance_stages
    /\ idx = 4
    /\ DictGet(arg.map, "send_batch").rt[1] > DictGet(arg.map, "send_batch").rt[2]
    /\ DictGet(arg.map, "calculate_metrics").rt = DictGet(arg.map, "send_batch").rt
    /\ DictGet(arg.map, "calculate_metrics").sample_size = SampleSize

\* The first n elements of seq without the repetitions: each element where
\* it occurs first.
RECURSIVE FirstOccurrences(_, _)
FirstOccurrences(seq, n) ==
    IF n = 0 THEN <<>>
    ELSE IF \E j \in 1..(n - 1) : seq[j] = seq[n]
         THEN FirstOccurrences(seq, n - 1)
         ELSE Append(FirstOccurrences(seq, n - 1), seq[n])

\* The last position of the name nm in the stage sequence.
LastPosition(nm) ==
    CHOOSE j \in 1..Len(stages) :
        /\ stages[j].name = nm
        /\ \A i \in (j + 1)..Len(stages) : stages[i].name # nm

\* C24: a sequence in which a name occurs twice makes run raise nothing of
\* its own: a run fails only with what a stage action raised, and when all
\* actions return, every stage is invoked once, in order, and run returns a
\* map with one entry per name, holding the output of the last stage of that
\* name, so with fewer entries than stages when a name repeats; the keys are
\* in the order in which the names were first executed (an overwritten entry
\* keeps its place).
C24_DuplicateNameOverwrites ==
    /\ pc = "failed" /\ exec.pc = "idle"
          => /\ outs # <<>>
             /\ outs[Len(outs)].tag = "raise"
             /\ outcome.exc = outs[Len(outs)].exc
    /\ pc = "completed"
          => /\ calls = [i \in 1..Len(stages) |-> i]
             /\ AllReturned
             /\ DictKeys(outcome.map)
                  = FirstOccurrences(NamesOf(stages), Len(stages))
             /\ \A i \in 1..Len(outcome.map) :
                   outcome.map[i].val = outs[LastPosition(outcome.map[i].key)].val
             /\ ~NoDuplicates(NamesOf(stages)) => Len(outcome.map) < Len(stages)

\* A run over three stages, the first and the last of one name and with
\* different outputs, returned two entries: that name first, holding the
\* output of the last stage.
C24_Witness ==
    /\ pc = "completed"
    /\ Len(stages) = 3
    /\ stages[1].name = stages[3].name
    /\ stages[1].name # stages[2].name
    /\ outs[1].val # outs[3].val
    /\ DictKeys(outcome.map) = << stages[1].name, stages[2].name >>
    /\ outcome.map[1].val = outs[3].val

\* The names a registry holds.
NameSet(d) == { d[i].key : i \in 1..Len(d) }

\* The registries are as the import of the modules left them, also when the
\* suite was built.
AsInitialised ==
    /\ registry = ModuleRegistry
    /\ strategies = ModuleStrategies
    /\ suite.pc # "none" => suite.seen = ModuleStrategies

\* C25 as stated: with the registries as module initialisation left them,
\* the names that have a strategy are the names that have a Test kind, and
\* the test case of a suite that create_test_suite built does not fail with
\* UnknownKind.
C25_Original ==
    AsInitialised =>
        /\ NameSet(strategies) = NameSet(registry)
        /\ ~(suite.pc = "failed" /\ suite.error = "UnknownKind")

\* The stage invoked k-th was calculate_metrics_stage and it returned a
\* status "error" value.
MetricsErrorAt(k) ==
    /\ stages[calls[k]].action = "calculate_metrics_stage"
    /\ outs[k].tag = "return"
    /\ outs[k].val.status = "error"

\* C26: in a run over the built-in performance or recovery sequence, or a
\* sequence of their shape with another producer, a map that run returns
\* holds status "success" under calculate_metrics: after the built-in
\* producers calculate_metrics_stage never returns status "error", and
\* whenever it does return one, the create_graphs stage invoked next raises
\* for want of response times and the run fails.
C26_NoMetricsErrorReturned ==
    /\ pc = "completed"
          => /\ DictHas(outcome.map, "calculate_metrics")
             /\ DictGet(outcome.map, "calculate_metrics").status = "success"
    /\ \A k \in 1..Len(outs) :
          MetricsErrorAt(k)
             => /\ stages \notin {get_performance_stages, get_recovery_stages}
                /\ pc # "completed"
                /\ Len(outs) > k
                      => /\ Len(outs) = k + 1
                         /\ stages[calls[k + 1]].action = "create_graphs_stage"
                         /\ outs[k + 1] = Raises(NoMetricsTimes)
                         /\ pc = "failed"
                         /\ outcome = [tag |-> "raise", map |-> <<>>,
                                       exc |-> NoMetricsTimes]

\* calculate_metrics returned a status "error" value, create_graphs raised
\* and the run failed.
C26_Witness ==
    /\ pc = "failed"
    /\ Len(outs) = Len(stages)
    /\ MetricsErrorAt(Len(outs) - 1)
    /\ outs[Len(outs)] = Raises(NoMetricsTimes)

\* The built-in performance sequence completed with status "success" under
\* calculate_metrics.
C26_WitnessBuiltIn ==
    /\ pc = "completed"
    /\ stages = get_performance_stages
    /\ test = "PerformanceTest"
    /\ DictGet(outcome.map, "calculate_metrics").status = "success"

\* ----------------------------------------------------------- (end of claims)
\* One run of a Test kind over a stage sequence.
SpecRun == Init /\ [][RunNext]_vars

\* The TestFactory registry under register, unregister and create_test.
SpecRegistry == Init /\ [][RegNext]_vars

\* The TestExecutionFactory registry under register_strategy and get_strategy.
SpecStrategies == Init /\ [][StratNext]_vars

\* One execute of a strategy on a Test kind and the run it starts.
SpecExecute == Init /\ [][ExecNext]_vars

\* One run of a Test kind over a sequence that ends in the analytics stages.
SpecPipeline == Init /\ [][PipelineNext]_vars

\* One suite from create_test_suite to the end of its test case, with one
\* change of a registry on the way.
SpecSuite == Init /\ [][SuiteNext]_vars

\* Two runs with their steps interleaved.
SpecInterleaved == Init /\ [][InterleavedNext]_vars

\* One call of an analytics function on an input drawn from bounded sets.
SpecAnalytics == Init /\ [][AnalyticsNext]_vars
====
